---- MODULE Spec2Model ----
(***************************************************************************)
(* Model of the research pipeline of the Linear-GitHub MCP server:         *)
(*   src/src/server.py        research_task (the MCP tool, the caller side) *)
(*   src/src/crew/research.py run_research_crew, LinearTool, GitHubTool     *)
(*   src/src/crew/agents.py   the four role factories                       *)
(*   src/src/crew/tasks.py    the four stage-instruction builders           *)
(*                                                                         *)
(* Text is a sequence of tokens: a fixed piece of a template is one token, *)
(* an interpolated value contributes its own tokens.  The reasoning layer  *)
(* (Crew.kickoff) and the remote HTTP services are the environment: their  *)
(* results are chosen nondeterministically.  The constructors of the       *)
(* crewai library (Agent, Task, Crew, the tool decorator) are taken to     *)
(* return; the one constructor the source guards, SerperDevTool(), may     *)
(* raise.                                                                  *)
(***************************************************************************)
EXTENDS Integers, Sequences, FiniteSets, TLC

VARIABLES
    pc,                   \* position of the request inside research_task / run_research_crew
    task_identifier,      \* argument of research_task
    owner,                \* argument of research_task
    repo,                 \* argument of research_task
    enable_web_search,    \* argument of research_task
    access_ctx,           \* server.py:480: the access context of the request (ctx)
    linear_token,         \* server.py:488
    github_token,         \* server.py:489
    linear_tools,         \* research.py:156
    github_tools,         \* research.py:157
    search_tools,         \* research.py:159-165
    task_analyst,         \* research.py:167
    code_analyst,         \* research.py:168
    researcher,           \* research.py:169
    planner,              \* research.py:170
    crew_agents,          \* research.py:176-180
    task_analysis,        \* research.py:173
    code_task,            \* research.py:196
    research_task,        \* research.py:215 (the local of run_research_crew)
    planning_task,        \* research.py:226
    task_analysis_output, \* research.py:194
    code_context,         \* research.py:210
    research_output,      \* research.py:213, 223
    final_result,         \* research.py:239
    exc,                  \* the exception in flight, if any
    response,             \* the value research_task returns to its caller
    lastCall,             \* the last capability invocation of the stage in execution
    toolCalls,            \* number of capability invocations of the stage in execution
    trace,                \* the calls made so far: builders invoked, kickoffs started and ended
    cancelled,            \* the caller has cancelled its await of research_task
    loop_owner,           \* the request whose coroutine runs on the event loop, 0 if none
    active,               \* the request whose locals the variables above hold
    other,                \* the locals of the other request in the process, if any
    mcp_tool,             \* the MCP tool of server.py the request calls
    token,                \* the local token of a Linear or GitHub tool handler
    branch_name,          \* argument of create_branch
    from_branch,          \* argument of create_branch
    requests,             \* the requests the handler has sent to the remote service
    http_response,        \* the local response of a Linear or GitHub tool handler
    ref_response,         \* server.py:319
    sha,                  \* server.py:326
    create_response       \* server.py:329

vars == <<pc, task_identifier, owner, repo, enable_web_search, access_ctx, linear_token,
          github_token, linear_tools, github_tools, search_tools, task_analyst,
          code_analyst, researcher, planner, crew_agents, task_analysis,
          code_task, research_task, planning_task, task_analysis_output,
          code_context, research_output, final_result, exc, response,
          lastCall, toolCalls, trace, cancelled, loop_owner, active, other,
          mcp_tool, token, branch_name, from_branch, requests, http_response,
          ref_response, sha, create_response>>

-----------------------------------------------------------------------------
(* Bounds of the model *)

\* longest text the reasoning layer returns, in tokens
MaxTextLen == 2

\* most capability invocations the reasoning layer makes inside one stage
MaxToolCalls == 1

-----------------------------------------------------------------------------
(* Values *)

\* variant of PLACEHOLDER: the sentence is reworded
PLACEHOLDER_reworded == "No research was performed."

\* research.py:213: the research text of a run without research
PLACEHOLDER == "No web research performed."

\* tokens the reasoning layer may put in a result: an ordinary word, and the
\* very sentence the specification fixes as the placeholder
Words == {"w", "No web research performed."}

RECURSIVE SeqsUpTo(_, _)
SeqsUpTo(S, n) ==
    IF n = 0 THEN {<<>>}
    ELSE LET shorter == SeqsUpTo(S, n - 1)
         IN  shorter \cup {Append(s, x) : s \in {t \in shorter : Len(t) = n - 1}, x \in S}

Texts == SeqsUpTo(Words, MaxTextLen)

\* the result texts used when two requests run side by side: two texts that
\* differ are enough to tell whose result went where
ConcurrentTexts == {<<"w">>, <<"No web research performed.">>}

TaskIdentifiers == {"ENG-123", "OPS-7"}
Owners == {"acme"}
Repos == {"widgets"}
LinearTokens == {"lin_tok", "lin_tok_2"}
GitHubTokens == {"gh_tok", "gh_tok_2"}

\* the access context of a request: the tokens granted to its user
AccessContext(user) ==
    IF user = 1 THEN [linear |-> "lin_tok", github |-> "gh_tok", errors |-> FALSE]
    ELSE [linear |-> "lin_tok_2", github |-> "gh_tok_2", errors |-> FALSE]

\* the access context of a request whose grant failed: has_errors() is true
\* and there is no token to read
AccessContextWithErrors == [linear |-> "<none>", github |-> "<none>", errors |-> TRUE]
ErrorMessages == {"llm timeout"}

\* server.py: the tools decorated with auth_provider.grant
LinearToolNames ==
    {"get_linear_issues", "get_linear_task", "get_workflow_states", "update_task_status"}
GitHubToolNames ==
    {"get_repo_structure", "read_file", "create_branch", "write_file", "create_pull_request"}
GrantedTools == LinearToolNames \cup GitHubToolNames \cup {"research_task", "test_auth"}

BranchNames == {"feature"}
FromBranches == {"main", "develop"}
Shas == {"sha_a", "sha_b"}

\* a Python name that is not bound yet
Unbound == <<"<unbound>">>
None == [role |-> "None", tools |-> <<>>, allow_delegation |-> FALSE]
NoTask == [description |-> Unbound, expected_output |-> Unbound, agent |-> None]
NoResult == [raw |-> Unbound]
NoResponse == [pending |-> TRUE]
NoCall == [tool |-> "none", cred |-> "none", net |-> "none", outcome |-> "none", text |-> <<>>]
NoException == "none"
NoRun == [pc |-> "none"]
NoHttpResponse == [status |-> 0, body |-> "none"]

Stages == {"TA", "CE", "RS", "PL"}

-----------------------------------------------------------------------------
(* Text helpers *)

\* sub occurs in text as a contiguous run of tokens
Contains(text, sub) ==
    \E i \in 0..(Len(text) - Len(sub)) :
        \A j \in 1..Len(sub) : text[i + j] = sub[j]

\* the elements of a list
Elems(list) == {list[i] : i \in 1..Len(list)}

\* list.insert(i, x) of Python, i counted from 0
Insert(list, i, x) == SubSeq(list, 1, i) \o <<x>> \o SubSeq(list, i + 1, Len(list))

\* str(CrewOutput): the raw text of the output (no pydantic or json output is
\* configured on any task of this repository)
Str(result) == result.raw

\* bool(list) of Python
Truthy(list) == Len(list) > 0

\* bool(agent) of Python: an Agent object is true, None is false
IsAgent(agent) == agent # None

-----------------------------------------------------------------------------
(* src/src/crew/agents.py *)

\* variant of create_task_analyst: the role is also handed the repository capabilities
create_task_analyst_all_tools(tools) ==
    [role |-> "Task Requirements Analyst",
     tools |-> tools \o <<"get_repo_structure", "read_file">>,
     allow_delegation |-> FALSE]

create_task_analyst(tools) ==
    [role |-> "Task Requirements Analyst", tools |-> tools, allow_delegation |-> FALSE]

create_code_analyst(tools) ==
    [role |-> "Codebase Analyst", tools |-> tools, allow_delegation |-> FALSE]

create_researcher(tools) ==
    [role |-> "Technical Researcher", tools |-> tools, allow_delegation |-> FALSE]

create_planner ==
    [role |-> "Implementation Planner", tools |-> <<>>, allow_delegation |-> FALSE]

-----------------------------------------------------------------------------
(* src/src/crew/tasks.py: each description is the f-string of the source,  *)
(* cut at its interpolation points                                         *)

create_task_analysis_task(agent, identifier) ==
    [description |->
        <<"Analyze the Linear task '", identifier,
          "' to understand: [...] Use the get_linear_task tool to fetch the task details. [...]">>,
     expected_output |-> <<"A structured analysis including: [...]">>,
     agent |-> agent]

create_code_exploration_task(agent, own, rep, task_context) ==
    [description |->
        <<"Based on this task analysis:">> \o task_context
        \o <<"Explore the repository ", own, "/", rep,
             " to find: [...] Use get_repo_structure to explore directories and read_file [...]">>,
     expected_output |-> <<"A code context report including: [...]">>,
     agent |-> agent]

\* variant of create_research_task: the context is cut to its first token
create_research_task_truncated(agent, task_context) ==
    [description |->
        <<"Based on this task:">>
        \o (IF Len(task_context) > 1 THEN SubSeq(task_context, 1, 1) ELSE task_context)
        \o <<"Research best practices and patterns for implementation: [...]">>,
     expected_output |-> <<"Research findings including: [...]">>,
     agent |-> agent]

create_research_task(agent, task_context) ==
    [description |->
        <<"Based on this task:">> \o task_context
        \o <<"Research best practices and patterns for implementation: [...]">>,
     expected_output |-> <<"Research findings including: [...]">>,
     agent |-> agent]

\* variant of create_planning_task: the template is a plain string, not an
\* f-string, and its research field stays as written
create_planning_task_unresolved(agent, analysis, context, research) ==
    [description |->
        <<"Create a detailed implementation plan using this information:", "## Task Analysis">>
        \o analysis \o <<"## Code Context">> \o context
        \o <<"## Research Findings", "{research}">>
        \o <<"Create an actionable implementation plan that includes: [...]">>,
     expected_output |-> <<"A comprehensive implementation plan with: [...]">>,
     agent |-> agent]

create_planning_task(agent, analysis, context, research) ==
    [description |->
        <<"Create a detailed implementation plan using this information:", "## Task Analysis">>
        \o analysis \o <<"## Code Context">> \o context
        \o <<"## Research Findings">> \o research
        \o <<"Create an actionable implementation plan that includes: [...]">>,
     expected_output |-> <<"A comprehensive implementation plan with: [...]">>,
     agent |-> agent]

-----------------------------------------------------------------------------
(* The remote services, seen from the capabilities *)

\* state of the credential a capability sends: accepted by the remote service,
\* or rejected by it (expired, revoked, or the text "None" of a missing one)
Credentials == {"valid", "rejected"}

\* httpx either delivers a response or raises (timeout, connection error)
Network == {"ok", "error"}

\* what the body of a response parses to: a JSON object, a JSON object whose
\* "content" does not decode to UTF-8 text, a JSON list, or no JSON at all
Bodies == {"json_obj", "json_obj_binary", "json_list", "not_json"}

\* the responses a remote service gives to a request carrying the credential
Responses(cred) ==
    [status : IF cred = "valid" THEN {200, 404} ELSE {401}, body : Bodies]

StatusText(status) ==
    CASE status = 200 -> "200" [] status = 401 -> "401" [] status = 404 -> "404"
      [] status = 201 -> "201" [] status = 422 -> "422"

Returned(text) == [outcome |-> "text", text |-> text]
Raised == [outcome |-> "raised", text |-> <<>>]

\* str(dict) of the dictionaries the wrappers return
StrJson(body) == <<"{json: ", body, "}">>
StrError(status) == <<"{'error': 'Status ", StatusText(status), "'}">>

-----------------------------------------------------------------------------
(* src/src/crew/research.py: the capabilities given to the roles *)

\* LinearTool.get_task, wrapped by get_linear_task_tool: the response is
\* parsed whatever its status
get_linear_task_tool(net, resp) ==
    IF net = "error" THEN Raised
    ELSE IF resp.body = "not_json" THEN Raised
    ELSE Returned(StrJson(resp.body))

\* GitHubTool.get_structure, wrapped by get_repo_structure_tool
get_repo_structure_tool(net, resp) ==
    IF net = "error" THEN Raised
    ELSE IF resp.status = 200
         THEN IF resp.body = "not_json" THEN Raised
              ELSE Returned(StrJson(resp.body))
         ELSE Returned(StrError(resp.status))

\* GitHubTool.read_file, wrapped by read_file_tool: data.get fails on a list
\* (the path of a directory)
read_file_tool(net, resp) ==
    IF net = "error" THEN Raised
    ELSE IF resp.status = 200
         THEN IF resp.body = "json_obj" THEN Returned(<<"{'path': ..., 'content': ...}">>)
              ELSE Raised
         ELSE Returned(StrError(resp.status))

\* SerperDevTool._run is code of crewai_tools: it returns text or raises
serper_tool(net, resp) ==
    IF net = "error" \/ resp.body = "not_json" THEN Raised
    ELSE Returned(StrJson(resp.body))

Invoke(tool, net, resp) ==
    CASE tool = "get_linear_task"    -> get_linear_task_tool(net, resp)
      [] tool = "get_repo_structure" -> get_repo_structure_tool(net, resp)
      [] tool = "read_file"          -> read_file_tool(net, resp)
      [] tool = "serper"             -> serper_tool(net, resp)

-----------------------------------------------------------------------------
(* The calls made so far *)

Event(ev, stage) == [ev |-> ev, stage |-> stage]

Log(ev, stage) == Append(trace, Event(ev, stage))

\* position of the first occurrence of an event in the trace, 0 if none
FirstIndex(e) ==
    IF \E i \in 1..Len(trace) : trace[i] = e
    THEN CHOOSE i \in 1..Len(trace) : trace[i] = e /\ \A j \in 1..(i - 1) : trace[j] # e
    ELSE 0

Happened(ev, stage) == FirstIndex(Event(ev, stage)) > 0

Count(ev, stage) == Cardinality({i \in 1..Len(trace) : trace[i] = Event(ev, stage)})

-----------------------------------------------------------------------------
(* src/src/server.py: the values research_task returns *)

AuthRequiredResponse ==
    [error |-> <<"Authentication required">>, details |-> <<"access errors">>, isError |-> TRUE]

TokenFailureResponse(e) ==
    [error |-> <<"Failed to get tokens: ", e>>, isError |-> TRUE]

PlanResponse(plan) ==
    [success |-> TRUE, task |-> task_identifier, repo |-> <<owner, "/", repo>>,
     implementation_plan |-> plan]

CrewFailedResponse(e) ==
    [error |-> <<"Research crew failed: ", e>>, isError |-> TRUE]

-----------------------------------------------------------------------------
InitLocals ==
    /\ task_identifier \in TaskIdentifiers
    /\ owner \in Owners
    /\ repo \in Repos
    /\ enable_web_search \in BOOLEAN
    /\ access_ctx \in {AccessContext(1), AccessContextWithErrors}
    /\ linear_token = "<unbound>"
    /\ github_token = "<unbound>"
    /\ linear_tools = <<>>
    /\ github_tools = <<>>
    /\ search_tools = <<>>
    /\ task_analyst = None
    /\ code_analyst = None
    /\ researcher = None
    /\ planner = None
    /\ crew_agents = <<>>
    /\ task_analysis = NoTask
    /\ code_task = NoTask
    /\ research_task = NoTask
    /\ planning_task = NoTask
    /\ task_analysis_output = Unbound
    /\ code_context = Unbound
    /\ research_output = Unbound
    /\ final_result = NoResult
    /\ exc = NoException
    /\ response = NoResponse
    /\ lastCall = NoCall
    /\ toolCalls = 0
    /\ trace = <<>>
    /\ cancelled = FALSE
    /\ loop_owner = 0
    /\ active = 1

\* the request has entered research_task
InitRequest ==
    /\ pc = "check_access"
    /\ InitLocals

\* the request calls research_task: no handler of another tool is entered
NoHandler ==
    /\ mcp_tool = "research_task"
    /\ token = "<unbound>"
    /\ branch_name = "<none>"
    /\ from_branch = "<none>"
    /\ requests = <<>>
    /\ http_response = NoHttpResponse
    /\ ref_response = NoHttpResponse
    /\ sha = "<unbound>"
    /\ create_response = NoHttpResponse

\* one request in the process
Init ==
    /\ InitRequest
    /\ other = NoRun
    /\ NoHandler

\* one request in the process, calling any credential-granted tool of the server
InitTool ==
    /\ InitLocals
    /\ other = NoRun
    /\ mcp_tool \in GrantedTools
    /\ pc = (IF mcp_tool = "research_task" THEN "check_access" ELSE "tool_check_access")
    /\ token = "<unbound>"
    /\ IF mcp_tool = "create_branch"
       THEN branch_name \in BranchNames /\ from_branch \in FromBranches
       ELSE branch_name = "<none>" /\ from_branch = "<none>"
    /\ requests = <<>>
    /\ http_response = NoHttpResponse
    /\ ref_response = NoHttpResponse
    /\ sha = "<unbound>"
    /\ create_response = NoHttpResponse

\* the locals of a request that has just entered research_task
InitialRun(user, identifier, own, rep, enabled) ==
    [pc |-> "check_access", task_identifier |-> identifier, owner |-> own, repo |-> rep,
     enable_web_search |-> enabled, access_ctx |-> AccessContext(user),
     linear_token |-> "<unbound>", github_token |-> "<unbound>",
     linear_tools |-> <<>>, github_tools |-> <<>>, search_tools |-> <<>>,
     task_analyst |-> None, code_analyst |-> None, researcher |-> None, planner |-> None,
     crew_agents |-> <<>>,
     task_analysis |-> NoTask, code_task |-> NoTask, research_task |-> NoTask,
     planning_task |-> NoTask,
     task_analysis_output |-> Unbound, code_context |-> Unbound,
     research_output |-> Unbound, final_result |-> NoResult,
     exc |-> NoException, response |-> NoResponse,
     lastCall |-> NoCall, toolCalls |-> 0, trace |-> <<>>, cancelled |-> FALSE]

\* two requests in the process, the second one of another user
Init2 ==
    /\ InitRequest
    /\ \E identifier \in TaskIdentifiers, enabled \in BOOLEAN,
          ctx \in {AccessContext(2), AccessContextWithErrors} :
          other = [InitialRun(2, identifier, owner, repo, enabled) EXCEPT !.access_ctx = ctx]
    /\ NoHandler

\* the locals of the active request
Locals ==
    [pc |-> pc, task_identifier |-> task_identifier, owner |-> owner, repo |-> repo,
     enable_web_search |-> enable_web_search, access_ctx |-> access_ctx,
     linear_token |-> linear_token, github_token |-> github_token,
     linear_tools |-> linear_tools, github_tools |-> github_tools,
     search_tools |-> search_tools,
     task_analyst |-> task_analyst, code_analyst |-> code_analyst,
     researcher |-> researcher, planner |-> planner, crew_agents |-> crew_agents,
     task_analysis |-> task_analysis, code_task |-> code_task,
     research_task |-> research_task, planning_task |-> planning_task,
     task_analysis_output |-> task_analysis_output, code_context |-> code_context,
     research_output |-> research_output, final_result |-> final_result,
     exc |-> exc, response |-> response,
     lastCall |-> lastCall, toolCalls |-> toolCalls, trace |-> trace,
     cancelled |-> cancelled]

\* the texts a kickoff may return
ResultTexts == IF other = NoRun THEN Texts ELSE ConcurrentTexts

inputs == <<task_identifier, owner, repo, enable_web_search, access_ctx>>
tokens == <<linear_token, github_token>>
tools == <<linear_tools, github_tools, search_tools>>
agents == <<task_analyst, code_analyst, researcher, planner, crew_agents>>
tasks == <<task_analysis, code_task, research_task, planning_task>>
outputs == <<task_analysis_output, code_context, research_output, final_result>>
calls == <<lastCall, toolCalls>>
\* the locals of the handler of a Linear or GitHub tool
handler == <<mcp_tool, token, branch_name, from_branch, requests, http_response,
             ref_response, sha, create_response>>
\* what a step of run_research_crew, in its worker thread, cannot touch
outside == <<cancelled, loop_owner, active, other, handler>>
\* what a step of the research_task coroutine leaves alone besides the loop
others == <<cancelled, active, other, handler>>

\* the coroutine of the active request can run: the event loop is free, or
\* it is the one running on it
OnLoop == loop_owner \in {0, active}

-----------------------------------------------------------------------------
(* src/src/server.py: research_task *)

\* server.py:480-484
research_task_check_access ==
    /\ pc = "check_access"
    /\ OnLoop
    /\ LET has_errors == access_ctx.errors IN
        IF has_errors
        THEN /\ response' = AuthRequiredResponse
             /\ pc' = "returned"
             /\ loop_owner' = 0
        ELSE /\ pc' = "get_tokens"
             /\ loop_owner' = active
             /\ UNCHANGED response
    /\ UNCHANGED <<others, inputs, tokens, tools, agents, tasks, outputs, exc, calls, trace>>

\* variant of research_task_get_tokens: a failure to obtain the tokens is
\* ignored and the run is dispatched without them
research_task_get_tokens_unchecked ==
    /\ pc = "get_tokens"
    /\ \/ /\ linear_token' = access_ctx.linear
          /\ github_token' = access_ctx.github
       \/ UNCHANGED tokens
    /\ pc' = "dispatch"
    /\ UNCHANGED <<outside, inputs, response, tools, agents, tasks, outputs, exc, calls, trace>>

\* server.py:486-491
research_task_get_tokens ==
    /\ pc = "get_tokens"
    /\ \/ /\ linear_token' = access_ctx.linear
          /\ github_token' = access_ctx.github
          /\ pc' = "dispatch"
          /\ UNCHANGED <<response, loop_owner>>
       \/ \E e \in {"no linear grant", "no github grant"} :
            /\ response' = TokenFailureResponse(e)
            /\ pc' = "returned"
            /\ loop_owner' = 0
            /\ UNCHANGED tokens
    /\ UNCHANGED <<others, inputs, tools, agents, tasks, outputs, exc, calls, trace>>

\* variant of run_research_crew_async: run_research_crew is called in the
\* coroutine itself, which keeps the event loop until the run ends
run_research_crew_async_blocking ==
    /\ pc = "dispatch"
    /\ pc' = "make_tools"
    /\ UNCHANGED <<outside, inputs, tokens, tools, agents, tasks, outputs, exc, response, calls, trace>>

\* server.py:493-503 and research.py:244-264: the run is handed to a worker
\* thread of the loop's default executor, where it enters run_research_crew;
\* the coroutine awaits the thread's future and leaves the event loop
run_research_crew_async ==
    /\ pc = "dispatch"
    /\ pc' = "make_tools"
    /\ loop_owner' = 0
    /\ UNCHANGED <<others, inputs, tokens, tools, agents, tasks, outputs, exc, response, calls, trace>>

\* variant of research_task_return: the plan is wrapped in a heading before
\* it is returned
research_task_return_wrapped ==
    /\ pc = "return"
    /\ ~cancelled
    /\ OnLoop
    /\ response' = PlanResponse(<<"# Implementation plan">> \o Str(final_result))
    /\ pc' = "returned"
    /\ loop_owner' = 0
    /\ UNCHANGED <<others, inputs, tokens, tools, agents, tasks, outputs, exc, calls, trace>>

\* server.py:505-510
research_task_return ==
    /\ pc = "return"
    /\ ~cancelled
    /\ OnLoop
    /\ response' = PlanResponse(Str(final_result))
    /\ pc' = "returned"
    /\ loop_owner' = 0
    /\ UNCHANGED <<others, inputs, tokens, tools, agents, tasks, outputs, exc, calls, trace>>

\* variant of research_task_except: the handler returns what the run had
\* computed so far as if it were the plan
research_task_except_partial ==
    /\ pc = "raised"
    /\ ~cancelled
    /\ OnLoop
    /\ response' = PlanResponse(IF code_context # Unbound THEN code_context
                                ELSE task_analysis_output)
    /\ pc' = "returned"
    /\ loop_owner' = 0
    /\ UNCHANGED <<others, inputs, tokens, tools, agents, tasks, outputs, exc, calls, trace>>

\* variant of research_task_except: the handler starts the run again from
\* its beginning instead of returning the failure
research_task_except_restarts ==
    /\ pc = "raised"
    /\ ~cancelled
    /\ OnLoop
    /\ pc' = "dispatch"
    /\ loop_owner' = active
    /\ exc' = NoException
    /\ trace' = <<>>
    /\ linear_tools' = <<>> /\ github_tools' = <<>> /\ search_tools' = <<>>
    /\ task_analyst' = None /\ code_analyst' = None /\ researcher' = None /\ planner' = None
    /\ crew_agents' = <<>>
    /\ task_analysis' = NoTask /\ code_task' = NoTask /\ research_task' = NoTask
    /\ planning_task' = NoTask
    /\ task_analysis_output' = Unbound /\ code_context' = Unbound
    /\ research_output' = Unbound /\ final_result' = NoResult
    /\ lastCall' = NoCall /\ toolCalls' = 0
    /\ UNCHANGED <<others, inputs, tokens, response>>

\* server.py:511-515
research_task_except ==
    /\ pc = "raised"
    /\ ~cancelled
    /\ OnLoop
    /\ response' = CrewFailedResponse(exc)
    /\ pc' = "returned"
    /\ loop_owner' = 0
    /\ UNCHANGED <<others, inputs, tokens, tools, agents, tasks, outputs, exc, calls, trace>>

\* the positions at which the coroutine is suspended in its await of the
\* worker thread (server.py:496, research.py:255)
WorkerPcs ==
    {"make_tools", "make_search", "make_agents", "build_TA", "kick_TA", "exec_TA",
     "build_CE", "kick_CE", "exec_CE", "decide_RS", "build_RS", "kick_RS", "exec_RS",
     "build_PL", "kick_PL", "exec_PL", "return", "raised"}

CancelledResponse == [cancelled |-> TRUE]

\* server.py:496: the caller cancels the request while research_task awaits
\* the run: CancelledError is raised at the await and leaves research_task
\* (it is no Exception, the handler of 511 does not catch it).  The future of
\* run_in_executor is cancelled; the thread that already runs
\* run_research_crew (research.py:255-264) is not interrupted
cancel ==
    /\ pc \in WorkerPcs
    /\ ~cancelled
    /\ loop_owner = 0
    /\ cancelled' = TRUE
    /\ response' = CancelledResponse
    /\ trace' = Log("cancel", "run")
    /\ UNCHANGED <<loop_owner, active, other, handler, inputs, tokens, tools, agents, tasks,
                   outputs, exc, calls, pc>>

\* research.py:255: the thread of a cancelled request ends; what it returned
\* or raised goes to a future nobody awaits
worker_result_dropped ==
    /\ pc \in {"return", "raised"}
    /\ cancelled
    /\ pc' = "dropped"
    /\ UNCHANGED <<outside, inputs, tokens, tools, agents, tasks, outputs, exc, response,
                   calls, trace>>

\* variant of switch: search_tools is one list of the module, which the two
\* requests share
switch_shared_search_tools ==
    /\ other # NoRun
    /\ other' = Locals
    /\ active' = 3 - active
    /\ pc' = other.pc
    /\ task_identifier' = other.task_identifier
    /\ owner' = other.owner
    /\ repo' = other.repo
    /\ enable_web_search' = other.enable_web_search
    /\ access_ctx' = other.access_ctx
    /\ linear_token' = other.linear_token
    /\ github_token' = other.github_token
    /\ linear_tools' = other.linear_tools
    /\ github_tools' = other.github_tools
    /\ search_tools' = search_tools
    /\ task_analyst' = other.task_analyst
    /\ code_analyst' = other.code_analyst
    /\ researcher' = other.researcher
    /\ planner' = other.planner
    /\ crew_agents' = other.crew_agents
    /\ task_analysis' = other.task_analysis
    /\ code_task' = other.code_task
    /\ research_task' = other.research_task
    /\ planning_task' = other.planning_task
    /\ task_analysis_output' = other.task_analysis_output
    /\ code_context' = other.code_context
    /\ research_output' = other.research_output
    /\ final_result' = other.final_result
    /\ exc' = other.exc
    /\ response' = other.response
    /\ lastCall' = other.lastCall
    /\ toolCalls' = other.toolCalls
    /\ trace' = other.trace
    /\ cancelled' = other.cancelled
    /\ UNCHANGED <<loop_owner, handler>>

\* the scheduler turns to the other request of the process: each call of
\* research_task and of run_research_crew has its own locals, the event loop
\* is the one thing the two requests have in common
switch ==
    /\ other # NoRun
    /\ other' = Locals
    /\ active' = 3 - active
    /\ pc' = other.pc
    /\ task_identifier' = other.task_identifier
    /\ owner' = other.owner
    /\ repo' = other.repo
    /\ enable_web_search' = other.enable_web_search
    /\ access_ctx' = other.access_ctx
    /\ linear_token' = other.linear_token
    /\ github_token' = other.github_token
    /\ linear_tools' = other.linear_tools
    /\ github_tools' = other.github_tools
    /\ search_tools' = other.search_tools
    /\ task_analyst' = other.task_analyst
    /\ code_analyst' = other.code_analyst
    /\ researcher' = other.researcher
    /\ planner' = other.planner
    /\ crew_agents' = other.crew_agents
    /\ task_analysis' = other.task_analysis
    /\ code_task' = other.code_task
    /\ research_task' = other.research_task
    /\ planning_task' = other.planning_task
    /\ task_analysis_output' = other.task_analysis_output
    /\ code_context' = other.code_context
    /\ research_output' = other.research_output
    /\ final_result' = other.final_result
    /\ exc' = other.exc
    /\ response' = other.response
    /\ lastCall' = other.lastCall
    /\ toolCalls' = other.toolCalls
    /\ trace' = other.trace
    /\ cancelled' = other.cancelled
    /\ UNCHANGED <<loop_owner, handler>>

-----------------------------------------------------------------------------
(* src/src/crew/research.py: run_research_crew *)

\* research.py:128-157: the wrappers close over the tokens; the tool lists
\* hold the three required capabilities
make_tools ==
    /\ pc = "make_tools"
    /\ linear_tools' = <<"get_linear_task">>
    /\ github_tools' = <<"get_repo_structure", "read_file">>
    /\ pc' = "make_search"
    /\ UNCHANGED <<outside, inputs, tokens, search_tools, agents, tasks, outputs, exc, response,
                   calls, trace>>

\* research.py:159-165: SerperDevTool() is attempted only when the caller
\* enabled web search; an exception of the constructor is caught and dropped
SearchTools(enabled, constructed) ==
    IF enabled
    THEN IF constructed THEN <<"serper">> ELSE <<>>
    ELSE <<>>

\* variant of make_search: the constructor's exception is not caught
make_search_propagates ==
    /\ pc = "make_search"
    /\ \E constructed \in BOOLEAN :
        /\ search_tools' = SearchTools(enable_web_search, constructed)
        /\ trace' = IF enable_web_search
                    THEN Log(IF constructed THEN "search_constructed" ELSE "search_failed", "RS")
                    ELSE trace
        /\ IF enable_web_search /\ ~constructed
           THEN pc' = "raised" /\ exc' = "SERPER_API_KEY not set"
           ELSE pc' = "make_agents" /\ UNCHANGED exc
    /\ UNCHANGED <<outside, inputs, tokens, linear_tools, github_tools, agents, tasks, outputs,
                   response, calls>>

make_search ==
    /\ pc = "make_search"
    /\ \E constructed \in BOOLEAN :
        /\ search_tools' = SearchTools(enable_web_search, constructed)
        /\ trace' = IF enable_web_search
                    THEN Log(IF constructed THEN "search_constructed" ELSE "search_failed", "RS")
                    ELSE trace
    /\ pc' = "make_agents"
    /\ UNCHANGED <<outside, inputs, tokens, linear_tools, github_tools, agents, tasks, outputs, exc,
                   response, calls>>

\* variant of make_agents: the researcher is created whether or not a search
\* capability exists, and is then in the roster without ever being invoked
make_agents_always_researcher ==
    /\ pc = "make_agents"
    /\ task_analyst' = create_task_analyst(linear_tools)
    /\ code_analyst' = create_code_analyst(github_tools)
    /\ researcher' = create_researcher(search_tools)
    /\ planner' = create_planner
    /\ pc' = "build_TA"
    /\ UNCHANGED <<outside, inputs, tokens, tools, crew_agents, tasks, outputs, exc, response,
                   calls, trace>>

\* research.py:167-170
make_agents ==
    /\ pc = "make_agents"
    /\ task_analyst' = create_task_analyst(linear_tools)
    /\ code_analyst' = create_code_analyst(github_tools)
    /\ researcher' = IF Truthy(search_tools) THEN create_researcher(search_tools) ELSE None
    /\ planner' = create_planner
    /\ pc' = "build_TA"
    /\ UNCHANGED <<outside, inputs, tokens, tools, crew_agents, tasks, outputs, exc, response,
                   calls, trace>>

\* variant of build_task_analysis: the token is written into the instruction
\* for the role to authenticate with
build_task_analysis_with_token ==
    /\ pc = "build_TA"
    /\ task_analysis' =
          [create_task_analysis_task(task_analyst, task_identifier)
              EXCEPT !.description = @ \o <<"Authorization: Bearer ", linear_token>>]
    /\ crew_agents' = LET base == <<task_analyst, code_analyst, planner>>
                      IN  IF IsAgent(researcher) THEN Insert(base, 2, researcher) ELSE base
    /\ trace' = Log("build", "TA")
    /\ pc' = "kick_TA"
    /\ UNCHANGED <<outside, inputs, tokens, tools, task_analyst, code_analyst, researcher, planner,
                   code_task, research_task, planning_task, outputs, exc, response, calls>>

\* research.py:173-188: the first instruction is built, the roster is filled
\* and the first crew is made
build_task_analysis ==
    /\ pc = "build_TA"
    /\ task_analysis' = create_task_analysis_task(task_analyst, task_identifier)
    /\ crew_agents' = LET base == <<task_analyst, code_analyst, planner>>
                      IN  IF IsAgent(researcher) THEN Insert(base, 2, researcher) ELSE base
    /\ trace' = Log("build", "TA")
    /\ pc' = "kick_TA"
    /\ UNCHANGED <<outside, inputs, tokens, tools, task_analyst, code_analyst, researcher, planner,
                   code_task, research_task, planning_task, outputs, exc, response, calls>>

\* the task whose crew is at its kickoff or inside it
TaskOf(stage) ==
    CASE stage = "TA" -> task_analysis
      [] stage = "CE" -> code_task
      [] stage = "RS" -> research_task
      [] stage = "PL" -> planning_task

\* research.py:191, 209, 222, 239: crew.kickoff() is entered
kickoff(stage) ==
    /\ pc = "kick_" \o stage
    /\ pc' = "exec_" \o stage
    /\ trace' = Log("start", stage)
    /\ UNCHANGED <<outside, inputs, tokens, tools, agents, tasks, outputs, exc, response, calls>>

\* variant of invoke_tool: an error payload of a capability is raised as a
\* failure of the stage
invoke_tool_error_raises(stage) ==
    /\ pc = "exec_" \o stage
    /\ toolCalls < MaxToolCalls
    /\ \E tool \in Elems(TaskOf(stage).agent.tools), cred \in Credentials, net \in Network :
        \E resp \in Responses(cred) :
            LET out == Invoke(tool, net, resp)
                failed == out.outcome = "text" /\ cred = "rejected"
            IN  /\ lastCall' = [tool |-> tool, cred |-> cred, net |-> net,
                                outcome |-> out.outcome, text |-> out.text]
                /\ pc' = IF failed THEN "raised" ELSE pc
                /\ exc' = IF failed THEN "unauthorized" ELSE exc
                /\ trace' = IF failed THEN Log("raise", stage) ELSE trace
    /\ toolCalls' = toolCalls + 1
    /\ UNCHANGED <<outside, inputs, tokens, tools, agents, tasks, outputs, response>>

\* inside kickoff the reasoning layer invokes a capability of the role the
\* task is bound to; the capability returns text or raises into the layer
invoke_tool(stage) ==
    /\ pc = "exec_" \o stage
    /\ toolCalls < MaxToolCalls
    /\ \E tool \in Elems(TaskOf(stage).agent.tools), cred \in Credentials, net \in Network :
        \E resp \in Responses(cred) :
            LET out == Invoke(tool, net, resp)
            IN  lastCall' = [tool |-> tool, cred |-> cred, net |-> net,
                             outcome |-> out.outcome, text |-> out.text]
    /\ toolCalls' = toolCalls + 1
    /\ UNCHANGED <<outside, inputs, tokens, tools, agents, tasks, outputs, exc, response, pc, trace>>

\* variant of kickoff_raises: the failed kickoff is tried again
kickoff_raises_retried(stage) ==
    /\ pc = "exec_" \o stage
    /\ trace' = Log("raise", stage)
    /\ pc' = "kick_" \o stage
    /\ lastCall' = NoCall
    /\ toolCalls' = 0
    /\ UNCHANGED <<outside, inputs, tokens, tools, agents, tasks, outputs, exc, response>>

\* variant of kickoff_raises: the exception is caught and the run goes on
\* to Planning with what it has
kickoff_raises_caught(stage) ==
    /\ pc = "exec_" \o stage
    /\ trace' = Log("raise", stage)
    /\ pc' = "build_PL"
    /\ lastCall' = NoCall
    /\ toolCalls' = 0
    /\ UNCHANGED <<outside, inputs, tokens, tools, agents, tasks, outputs, exc, response>>

\* kickoff raises: nothing in run_research_crew catches it, the exception
\* leaves the function
kickoff_raises(stage) ==
    /\ pc = "exec_" \o stage
    /\ \E e \in ErrorMessages : exc' = e
    /\ trace' = Log("raise", stage)
    /\ pc' = "raised"
    /\ lastCall' = NoCall
    /\ toolCalls' = 0
    /\ UNCHANGED <<outside, inputs, tokens, tools, agents, tasks, outputs, response>>

\* variant of finish_task_analysis: the run goes straight on to the research
\* decision, Code-Exploration is left out
finish_task_analysis_skips_code ==
    /\ pc = "exec_TA"
    /\ \E result \in [raw : ResultTexts] : task_analysis_output' = Str(result)
    /\ trace' = Log("done", "TA")
    /\ pc' = "decide_RS"
    /\ lastCall' = NoCall
    /\ toolCalls' = 0
    /\ UNCHANGED <<outside, inputs, tokens, tools, agents, tasks, code_context, research_output,
                   final_result, exc, response>>

\* research.py:191-194
finish_task_analysis ==
    /\ pc = "exec_TA"
    /\ \E result \in [raw : ResultTexts] : task_analysis_output' = Str(result)
    /\ trace' = Log("done", "TA")
    /\ pc' = "build_CE"
    /\ lastCall' = NoCall
    /\ toolCalls' = 0
    /\ UNCHANGED <<outside, inputs, tokens, tools, agents, tasks, code_context, research_output,
                   final_result, exc, response>>

\* variant of build_code_exploration: the code analyst is handed the issue
\* capability when its stage is built
build_code_exploration_grants ==
    /\ pc = "build_CE"
    /\ code_analyst' = [code_analyst EXCEPT !.tools = @ \o <<"get_linear_task">>]
    /\ code_task' = create_code_exploration_task(code_analyst', owner, repo, task_analysis_output)
    /\ trace' = Log("build", "CE")
    /\ pc' = "kick_CE"
    /\ UNCHANGED <<outside, inputs, tokens, tools, task_analyst, researcher, planner, crew_agents,
                   task_analysis, research_task, planning_task, outputs, exc, response, calls>>

\* research.py:196-208
build_code_exploration ==
    /\ pc = "build_CE"
    /\ code_task' = create_code_exploration_task(code_analyst, owner, repo, task_analysis_output)
    /\ trace' = Log("build", "CE")
    /\ pc' = "kick_CE"
    /\ UNCHANGED <<outside, inputs, tokens, tools, agents, task_analysis, research_task, planning_task,
                   outputs, exc, response, calls>>

\* research.py:209-210
finish_code_exploration ==
    /\ pc = "exec_CE"
    /\ \E code_result \in [raw : ResultTexts] : code_context' = Str(code_result)
    /\ trace' = Log("done", "CE")
    /\ pc' = "decide_RS"
    /\ lastCall' = NoCall
    /\ toolCalls' = 0
    /\ UNCHANGED <<outside, inputs, tokens, tools, agents, tasks, task_analysis_output,
                   research_output, final_result, exc, response>>

\* variant of ResearchTaken: the branch follows the caller's flag alone
ResearchTaken_flag_only == enable_web_search

\* research.py:214: the condition of the research branch
ResearchTaken == IsAgent(researcher) /\ Truthy(search_tools)

\* research.py:213-214
decide_research ==
    /\ pc = "decide_RS"
    /\ research_output' = <<PLACEHOLDER>>
    /\ IF ResearchTaken
       THEN /\ pc' = "build_RS"
            /\ UNCHANGED trace
       ELSE /\ pc' = "build_PL"
            /\ trace' = Log("skip", "RS")
    /\ UNCHANGED <<outside, inputs, tokens, tools, agents, tasks, task_analysis_output, code_context,
                   final_result, exc, response, calls>>

\* research.py:215-221
build_research ==
    /\ pc = "build_RS"
    /\ research_task' = create_research_task(researcher, task_analysis_output)
    /\ trace' = Log("build", "RS")
    /\ pc' = "kick_RS"
    /\ UNCHANGED <<outside, inputs, tokens, tools, agents, task_analysis, code_task, planning_task,
                   outputs, exc, response, calls>>

\* research.py:222-223
finish_research ==
    /\ pc = "exec_RS"
    /\ \E research_result \in [raw : ResultTexts] : research_output' = Str(research_result)
    /\ trace' = Log("done", "RS")
    /\ pc' = "build_PL"
    /\ lastCall' = NoCall
    /\ toolCalls' = 0
    /\ UNCHANGED <<outside, inputs, tokens, tools, agents, tasks, task_analysis_output, code_context,
                   final_result, exc, response>>

\* research.py:226-238
build_planning ==
    /\ pc = "build_PL"
    /\ planning_task' = create_planning_task(planner, task_analysis_output, code_context,
                                             research_output)
    /\ trace' = Log("build", "PL")
    /\ pc' = "kick_PL"
    /\ UNCHANGED <<outside, inputs, tokens, tools, agents, task_analysis, code_task, research_task,
                   outputs, exc, response, calls>>

\* research.py:239-241
finish_planning ==
    /\ pc = "exec_PL"
    /\ final_result' \in [raw : ResultTexts]
    /\ trace' = Log("done", "PL")
    /\ pc' = "return"
    /\ lastCall' = NoCall
    /\ toolCalls' = 0
    /\ UNCHANGED <<outside, inputs, tokens, tools, agents, tasks, task_analysis_output, code_context,
                   research_output, exc, response>>

-----------------------------------------------------------------------------
(* src/src/server.py: the handlers of the Linear and GitHub tools *)

Service(name) == IF name \in LinearToolNames THEN "Linear" ELSE "GitHub"

\* server.py:68, 111, 154, 203, 241, 277, 307, 358, 412
ToolAuthRequiredResponse(name) ==
    [error |-> <<"Authentication required for ", Service(name)>>,
     details |-> <<"access errors">>, isError |-> TRUE]

\* server.py:264, 298, 337, 392, 436
StatusErrorResponse(resp) ==
    [error |-> <<"Status ", StatusText(resp.status)>>, message |-> resp.body]

\* the responses of GitHub to a request that writes
WriteResponses(cred) ==
    [status : IF cred = "valid" THEN {200, 201, 422} ELSE {401}, body : Bodies]

\* the responses of GitHub to the lookup of a ref: a 200 carries the ref
\* object with its SHA, unless the body is not what the handler expects
RefResponses(cred) ==
    [status : IF cred = "valid" THEN {200, 404} ELSE {401},
     body : {"json_ref", "json_obj", "not_json"}, sha : Shas]

\* the responses of GitHub to the creation of a ref
CreateResponses(cred) ==
    [status : IF cred = "valid" THEN {201, 422} ELSE {401}, body : {"json_obj", "not_json"}]

\* the HTTP method of the one request of a handler
Method(name) ==
    CASE name \in LinearToolNames -> "POST"
      [] name \in {"get_repo_structure", "read_file"} -> "GET"
      [] name = "write_file" -> "PUT"
      [] name = "create_pull_request" -> "POST"

\* what the handler returns for the response it got: a dictionary, or the
\* exception of response.json(), data.get or b64decode().decode
HandlerResult(name, resp) ==
    CASE name \in LinearToolNames ->
            IF resp.body = "not_json" THEN Raised
            ELSE [outcome |-> "value", value |-> [data |-> resp.body]]
      [] name = "get_repo_structure" ->
            IF resp.status # 200
            THEN [outcome |-> "value", value |-> StatusErrorResponse(resp)]
            ELSE IF resp.body = "not_json" THEN Raised
            ELSE IF resp.body = "json_list"
                 THEN [outcome |-> "value", value |-> [files |-> resp.body]]
                 ELSE [outcome |-> "value", value |-> [data |-> resp.body]]
      [] name = "read_file" ->
            IF resp.status # 200
            THEN [outcome |-> "value", value |-> StatusErrorResponse(resp)]
            ELSE IF resp.body = "json_obj"
                 THEN [outcome |-> "value",
                       value |-> [path |-> "path", content |-> "content", sha |-> "sha"]]
                 ELSE Raised
      [] name = "write_file" ->
            IF resp.status \notin {200, 201}
            THEN [outcome |-> "value", value |-> StatusErrorResponse(resp)]
            ELSE IF resp.body \in {"json_obj", "json_obj_binary"}
                 THEN [outcome |-> "value",
                       value |-> [success |-> TRUE, path |-> "path", commit_sha |-> "sha"]]
                 ELSE Raised
      [] name = "create_pull_request" ->
            IF resp.status # 201
            THEN [outcome |-> "value", value |-> StatusErrorResponse(resp)]
            ELSE IF resp.body \in {"json_obj", "json_obj_binary"}
                 THEN [outcome |-> "value",
                       value |-> [success |-> TRUE, pr_number |-> "number", url |-> "html_url"]]
                 ELSE Raised

pipeline == <<inputs, tokens, tools, agents, tasks, outputs, calls, trace>>
untouched == <<cancelled, loop_owner, active, other, mcp_tool, branch_name, from_branch>>

\* variant of tool_check_access: the token is read before the access context
\* is asked for its errors
tool_check_access_after_token ==
    /\ pc = "tool_check_access"
    /\ mcp_tool \in LinearToolNames \cup GitHubToolNames
    /\ token' = IF mcp_tool \in LinearToolNames THEN access_ctx.linear ELSE access_ctx.github
    /\ IF access_ctx.errors
       THEN /\ response' = ToolAuthRequiredResponse(mcp_tool)
            /\ pc' = "returned"
       ELSE /\ pc' = "tool_get_token"
            /\ UNCHANGED response
    /\ UNCHANGED <<pipeline, untouched, exc, requests, http_response, ref_response, sha,
                   create_response>>

\* server.py:66-68 and the same three lines of every Linear and GitHub handler
tool_check_access ==
    /\ pc = "tool_check_access"
    /\ mcp_tool \in LinearToolNames \cup GitHubToolNames
    /\ LET has_errors == access_ctx.errors IN
        IF has_errors
        THEN /\ response' = ToolAuthRequiredResponse(mcp_tool)
             /\ pc' = "returned"
        ELSE /\ pc' = "tool_get_token"
             /\ UNCHANGED response
    /\ UNCHANGED <<pipeline, untouched, exc, token, requests, http_response, ref_response, sha,
                   create_response>>

\* server.py:70 and the same line of every Linear and GitHub handler: access()
\* raises when the context holds no token of the service; no handler but
\* research_task and test_auth catches it
tool_get_token ==
    /\ pc = "tool_get_token"
    /\ \/ /\ token' = IF mcp_tool \in LinearToolNames THEN access_ctx.linear
                     ELSE access_ctx.github
          /\ pc' = IF mcp_tool = "create_branch" THEN "get_ref" ELSE "tool_request"
          /\ UNCHANGED exc
       \/ /\ exc' = "no grant"
          /\ pc' = "raised_to_caller"
          /\ UNCHANGED token
    /\ UNCHANGED <<pipeline, untouched, response, requests, http_response, ref_response, sha,
                   create_response>>

\* server.py:90-97, 133-141, 182-190, 216-227, 252-253, 289-290, 378-383,
\* 422-432: the one request of the handler
tool_request ==
    /\ pc = "tool_request"
    /\ requests' = Append(requests, [method |-> Method(mcp_tool), service |-> Service(mcp_tool),
                                     bearer |-> token])
    /\ \E cred \in Credentials, net \in Network :
        IF net = "error"
        THEN /\ exc' = "connect error"
             /\ pc' = "raised_to_caller"
             /\ UNCHANGED http_response
        ELSE /\ http_response' \in (IF mcp_tool \in {"write_file", "create_pull_request"}
                                    THEN WriteResponses(cred) ELSE Responses(cred))
             /\ pc' = "tool_return"
             /\ UNCHANGED exc
    /\ UNCHANGED <<pipeline, untouched, response, token, ref_response, sha, create_response>>

\* server.py:98, 142, 191, 228, 254-264, 291-298, 385-392, 434-442
tool_return ==
    /\ pc = "tool_return"
    /\ LET out == HandlerResult(mcp_tool, http_response) IN
        IF out.outcome = "raised"
        THEN /\ exc' = "decode error"
             /\ pc' = "raised_to_caller"
             /\ UNCHANGED response
        ELSE /\ response' = out.value
             /\ pc' = "returned"
             /\ UNCHANGED exc
    /\ UNCHANGED <<pipeline, untouched, token, requests, http_response, ref_response, sha,
                   create_response>>

-----------------------------------------------------------------------------
(* src/src/server.py: create_branch *)

GetRef(branch) == [method |-> "GET", url |-> <<"git/ref/heads/", branch>>]
PostRef(branch, commit) ==
    [method |-> "POST", url |-> <<"git/refs">>, ref |-> <<"refs/heads/", branch>>,
     sha |-> commit]

\* server.py:319-322
create_branch_get_ref ==
    /\ pc = "get_ref"
    /\ requests' = Append(requests, GetRef(from_branch))
    /\ \E cred \in Credentials, net \in Network :
        IF net = "error"
        THEN /\ exc' = "connect error"
             /\ pc' = "raised_to_caller"
             /\ UNCHANGED ref_response
        ELSE /\ ref_response' \in RefResponses(cred)
             /\ pc' = "check_ref"
             /\ UNCHANGED exc
    /\ UNCHANGED <<pipeline, untouched, response, token, http_response, sha, create_response>>

\* variant of create_branch_check_ref: the status of the lookup is not
\* looked at
create_branch_check_ref_unguarded ==
    /\ pc = "check_ref"
    /\ IF ref_response.body = "json_ref"
       THEN /\ sha' = ref_response.sha
            /\ pc' = "post_ref"
            /\ UNCHANGED exc
       ELSE /\ exc' = "decode error"
            /\ pc' = "raised_to_caller"
            /\ UNCHANGED sha
    /\ UNCHANGED <<pipeline, untouched, response, token, requests, http_response, ref_response,
                   create_response>>

\* server.py:323-326: ref_response.json()["object"]["sha"] raises when the
\* body is not JSON or has no such member
create_branch_check_ref ==
    /\ pc = "check_ref"
    /\ IF ref_response.status # 200
       THEN /\ response' = [error |-> <<"Could not find branch ", from_branch>>,
                            details |-> ref_response.body]
            /\ pc' = "returned"
            /\ UNCHANGED <<sha, exc>>
       ELSE IF ref_response.body = "json_ref"
            THEN /\ sha' = ref_response.sha
                 /\ pc' = "post_ref"
                 /\ UNCHANGED <<response, exc>>
            ELSE /\ exc' = "decode error"
                 /\ pc' = "raised_to_caller"
                 /\ UNCHANGED <<response, sha>>
    /\ UNCHANGED <<pipeline, untouched, token, requests, http_response, ref_response,
                   create_response>>

\* server.py:329-333
create_branch_post_ref ==
    /\ pc = "post_ref"
    /\ requests' = Append(requests, PostRef(branch_name, sha))
    /\ \E cred \in Credentials, net \in Network :
        IF net = "error"
        THEN /\ exc' = "connect error"
             /\ pc' = "raised_to_caller"
             /\ UNCHANGED create_response
        ELSE /\ create_response' \in CreateResponses(cred)
             /\ pc' = "check_create"
             /\ UNCHANGED exc
    /\ UNCHANGED <<pipeline, untouched, response, token, http_response, ref_response, sha>>

\* server.py:335-337
create_branch_return ==
    /\ pc = "check_create"
    /\ response' = IF create_response.status = 201
                   THEN [success |-> TRUE, branch |-> branch_name, sha |-> sha]
                   ELSE StatusErrorResponse(create_response)
    /\ pc' = "returned"
    /\ UNCHANGED <<pipeline, untouched, exc, token, requests, http_response, ref_response, sha,
                   create_response>>

-----------------------------------------------------------------------------
(* src/src/server.py: test_auth *)

\* server.py:527-562: the context is not asked for its errors; each access()
\* is tried and its exception caught
test_auth ==
    /\ pc = "tool_check_access"
    /\ mcp_tool = "test_auth"
    /\ \E linear_ok \in (IF access_ctx.errors THEN {FALSE} ELSE BOOLEAN),
          github_ok \in (IF access_ctx.errors THEN {FALSE} ELSE BOOLEAN) :
        /\ linear_token' = IF linear_ok THEN access_ctx.linear ELSE linear_token
        /\ github_token' = IF github_ok THEN access_ctx.github ELSE github_token
        /\ response' = [linear |-> IF linear_ok THEN "authenticated" ELSE "error",
                        github |-> IF github_ok THEN "authenticated" ELSE "error"]
    /\ pc' = "returned"
    /\ UNCHANGED <<inputs, tools, agents, tasks, outputs, calls, trace, untouched, exc, token,
                   requests, http_response, ref_response, sha, create_response>>

-----------------------------------------------------------------------------
\* a step of research_task or of run_research_crew itself
PipelineStep ==
    \/ research_task_check_access
    \/ research_task_get_tokens
    \/ run_research_crew_async
    \/ make_tools
    \/ make_search
    \/ make_agents
    \/ build_task_analysis
    \/ \E stage \in Stages : kickoff(stage)
    \/ \E stage \in Stages : kickoff_raises(stage)
    \/ finish_task_analysis
    \/ build_code_exploration
    \/ finish_code_exploration
    \/ decide_research
    \/ build_research
    \/ finish_research
    \/ build_planning
    \/ finish_planning
    \/ research_task_return
    \/ research_task_except

Next ==
    \/ PipelineStep
    \/ \E stage \in Stages : invoke_tool(stage)

Spec == Init /\ [][Next]_vars

\* a request that its caller may cancel
CancelNext ==
    \/ Next
    \/ cancel
    \/ worker_result_dropped

CancelSpec == Init /\ [][CancelNext]_vars

\* two requests side by side; what the reasoning layer does inside kickoff
\* (its capability invocations) is left out of this specification
Next2 ==
    \/ PipelineStep
    \/ switch

Spec2 == Init2 /\ [][Next2]_vars

\* one request to any credential-granted tool of the server
HandlerStep ==
    \/ tool_check_access
    \/ tool_get_token
    \/ tool_request
    \/ tool_return
    \/ create_branch_get_ref
    \/ create_branch_check_ref
    \/ create_branch_post_ref
    \/ create_branch_return
    \/ test_auth

ToolNext ==
    \/ PipelineStep
    \/ HandlerStep

ToolSpec == InitTool /\ [][ToolNext]_vars

\* run_research_crew is straight-line code: it waits for nothing but the
\* return of kickoff and of the capabilities, so a step that can be taken is taken
FairSpec == Spec /\ WF_vars(Next)

-----------------------------------------------------------------------------
(* Vocabulary of the claims *)

IsBuildOrStart(e, stage) == e.stage = stage /\ e.ev \in {"build", "start"}

\* the event happened strictly before position i of the trace
Before(ev, stage, i) == \E j \in 1..(i - 1) : trace[j] = Event(ev, stage)

\* some kickoff raised
SomeStageRaised == \E stage \in Stages : Happened("raise", stage)

\* the search capability was constructed (attempted only when enabled)
SearchConstructed == Happened("search_constructed", "RS")

IsPlan(r) == "implementation_plan" \in DOMAIN r
IsFailure(r) == "isError" \in DOMAIN r

-----------------------------------------------------------------------------
(* C1: the stages run strictly in the order Task-Analysis, Code-Exploration, *)
(* Research (when taken), Planning: an instruction is built and a stage is   *)
(* started only after the execution of the previous stage has completed and  *)
(* its result text is bound; no two stages are in execution at once.         *)
C1_StrictStageOrder ==
    /\ \A i \in 1..Len(trace) :
        LET e == trace[i] IN
        /\ IsBuildOrStart(e, "CE") => Before("done", "TA", i)
        /\ IsBuildOrStart(e, "RS") => Before("done", "CE", i)
        /\ IsBuildOrStart(e, "PL") =>
              /\ Before("done", "CE", i)
              /\ Before("skip", "RS", i) \/ Before("done", "RS", i)
              /\ Before("build", "RS", i) => Before("done", "RS", i)
        /\ e.ev = "start" => Before("build", e.stage, i)
        /\ e.ev \in {"build", "start"} =>
              \A j \in 1..(i - 1) :
                  (trace[j].ev = "start" /\ trace[j].stage # e.stage)
                      => Before("done", trace[j].stage, i)
    /\ code_task # NoTask => task_analysis_output # Unbound
    /\ research_task # NoTask => task_analysis_output # Unbound /\ code_context # Unbound
    /\ planning_task # NoTask =>
          /\ task_analysis_output # Unbound
          /\ code_context # Unbound
          /\ research_output # Unbound

\* a run that executed all four stages
C1_Witness ==
    /\ pc = "return"
    /\ Happened("done", "TA") /\ Happened("done", "CE")
    /\ Happened("done", "RS") /\ Happened("done", "PL")

-----------------------------------------------------------------------------
(* C2: past Code-Exploration, the Research stage is built and executed if   *)
(* and only if the caller enabled web search and the search capability was  *)
(* constructed; otherwise the run takes the skip branch and the Research    *)
(* stage is neither built nor executed.                                     *)
C2_ResearchIffEnabledAndConstructed ==
    LET decided == Happened("build", "RS") \/ Happened("skip", "RS")
        wanted == enable_web_search /\ SearchConstructed
    IN
    /\ decided => Happened("done", "CE")
    /\ decided => (Happened("build", "RS") <=> wanted)
    /\ decided => (Happened("skip", "RS") <=> ~wanted)
    /\ Happened("start", "RS") => wanted
    /\ Happened("skip", "RS") =>
          /\ research_task = NoTask
          /\ ~Happened("start", "RS")
          /\ research_output = <<"No web research performed.">>
    /\ Happened("build", "PL") => (Happened("done", "RS") <=> wanted)

\* the caller enabled web search, the capability could not be constructed,
\* and the run went through the skip branch to its end
C2_Witness ==
    /\ pc = "return"
    /\ enable_web_search
    /\ Happened("skip", "RS")

-----------------------------------------------------------------------------
(* C3: when the reasoning layer raises during Code-Exploration the run ends *)
(* with the stage-execution failure: create_planning_task is never invoked, *)
(* neither Research nor Planning is built or executed, and the caller gets  *)
(* the failure carrying the exception's text.                               *)
C3_CodeExplorationFailureStopsRun ==
    Happened("raise", "CE") =>
        /\ pc \in {"raised", "returned"}
        /\ planning_task = NoTask /\ research_task = NoTask
        /\ \A ev \in {"build", "start", "done"} :
              ~Happened(ev, "RS") /\ ~Happened(ev, "PL")
        /\ pc = "returned" => response = [error |-> <<"Research crew failed: ", exc>>,
                                          isError |-> TRUE]

C3_Witness ==
    /\ pc = "returned"
    /\ Happened("raise", "CE")

-----------------------------------------------------------------------------
(* C4: the caller receives either the complete plan, which is the text of   *)
(* the Planning stage's result of a run that executed Planning to its end,  *)
(* or one failure with a reason; the text of an earlier stage of a run that *)
(* did not finish Planning is never returned.                               *)
C4_PlanOrFailureNeverPartial ==
    /\ pc = "returned" <=> response # NoResponse
    /\ pc = "returned" =>
          \/ /\ IsPlan(response) /\ ~IsFailure(response)
             /\ Happened("done", "PL") /\ ~SomeStageRaised
             /\ response.implementation_plan = final_result.raw
          \/ /\ IsFailure(response) /\ ~IsPlan(response)
             /\ ~Happened("done", "PL")
             /\ DOMAIN response \subseteq {"error", "details", "isError"}
             /\ Len(response.error) >= 1
             /\ \A out \in {task_analysis_output, code_context, research_output} :
                   (out # Unbound /\ out # <<>>) => ~Contains(response.error, out)

\* a failure returned after two stages had produced their texts
C4_Witness ==
    /\ pc = "returned"
    /\ IsFailure(response)
    /\ Happened("done", "TA") /\ Happened("done", "CE")
    /\ task_analysis_output # <<>>

-----------------------------------------------------------------------------
(* C5: a run with the required capabilities and web search disabled, in     *)
(* which no stage raises, reaches the execution of Planning, and whenever   *)
(* the Planning instruction of such a run is built it contains the literal  *)
(* text "No web research performed.".                                       *)
C5_DisabledSearchPlansWithPlaceholder ==
    /\ [](( ~enable_web_search /\ planning_task # NoTask) =>
            /\ Contains(planning_task.description, <<"No web research performed.">>)
            /\ Contains(planning_task.description,
                        <<"## Research Findings", "No web research performed.">>))
    /\ (~enable_web_search /\ pc = "make_tools")
          ~> (Happened("done", "PL") \/ SomeStageRaised)

\* web search disabled, no stage result contains the sentence by chance, and
\* Planning was executed
C5_Witness ==
    /\ ~enable_web_search
    /\ Happened("done", "PL")
    /\ task_analysis_output = <<"w">> /\ code_context = <<"w">>

-----------------------------------------------------------------------------
(* C6: when the Research instruction is built it contains the text of the   *)
(* Task-Analysis result token for token, whole and in one piece, between    *)
(* the two fixed parts of its template.                                     *)
C6_ResearchEmbedsAnalysisVerbatim ==
    Happened("build", "RS") =>
        /\ enable_web_search /\ SearchConstructed
        /\ Contains(research_task.description, task_analysis_output)
        /\ Len(research_task.description) = Len(task_analysis_output) + 2
        /\ SubSeq(research_task.description, 2, Len(task_analysis_output) + 1)
              = task_analysis_output

C6_Witness ==
    /\ Happened("build", "RS")
    /\ Len(task_analysis_output) >= 1

-----------------------------------------------------------------------------
(* C7: least privilege: once the roles are made, the task analyst holds     *)
(* only get_linear_task, the code analyst only get_repo_structure and       *)
(* read_file, the planner nothing; each stage is bound to its own role, and *)
(* a capability invoked inside a stage is one of that stage's role.         *)
C7_LeastPrivilege ==
    /\ task_analyst # None =>
          /\ Elems(task_analyst.tools) = {"get_linear_task"}
          /\ Elems(code_analyst.tools) = {"get_repo_structure", "read_file"}
          /\ Elems(planner.tools) = {}
    /\ task_analysis # NoTask => task_analysis.agent = task_analyst
    /\ code_task # NoTask => code_task.agent = code_analyst
    /\ planning_task # NoTask => planning_task.agent = planner
    /\ (pc = "exec_TA" /\ lastCall # NoCall) => lastCall.tool = "get_linear_task"
    /\ (pc = "exec_CE" /\ lastCall # NoCall) =>
          lastCall.tool \in {"get_repo_structure", "read_file"}
    /\ pc = "exec_PL" => lastCall = NoCall

\* the task analyst has invoked a capability during its stage
C7_Witness ==
    /\ pc = "exec_TA"
    /\ lastCall # NoCall

-----------------------------------------------------------------------------
(* C8: an exception of the search capability's constructor is swallowed: it *)
(* leaves no exception in flight and no failure for the caller; the run has *)
(* no researcher and no Research stage, and unless a stage raises it goes   *)
(* on through Task-Analysis, Code-Exploration and Planning to the plan.     *)
C8_SearchConstructionFailureSwallowed ==
    Happened("search_failed", "RS") =>
        /\ search_tools = <<>>
        /\ researcher = None
        /\ \A ev \in {"build", "start", "done", "raise"} : ~Happened(ev, "RS")
        /\ (pc = "raised" \/ exc # NoException) => SomeStageRaised
        /\ (pc = "returned" /\ IsFailure(response)) => SomeStageRaised
        /\ (pc = "returned" /\ ~SomeStageRaised) =>
              /\ IsPlan(response)
              /\ Happened("done", "TA") /\ Happened("done", "CE") /\ Happened("done", "PL")

C8_Witness ==
    /\ pc = "returned"
    /\ Happened("search_failed", "RS")
    /\ IsPlan(response)

-----------------------------------------------------------------------------
(* C9: a capability invoked with a credential the remote service rejects    *)
(* (and answered by the service) returns text, it does not raise.  Violated *)
(* by get_linear_task: LinearTool.get_task parses the body of the answer    *)
(* whatever its status, and an answer that is not JSON raises.              *)
C9_RejectedCredentialReturnsText ==
    (/\ lastCall.tool \in {"get_linear_task", "get_repo_structure", "read_file"}
     /\ lastCall.cred = "rejected"
     /\ lastCall.net = "ok")
        => lastCall.outcome = "text"

-----------------------------------------------------------------------------
(* C10: when the credential of a required capability cannot be obtained the *)
(* caller gets a failure and nothing of the pipeline has happened: no       *)
(* capability, role or instruction was made and no stage was started; and   *)
(* nothing of the pipeline ever happens without both credentials.           *)
C10_NoCredentialNoRun ==
    LET credentials == linear_token \in LinearTokens /\ github_token \in GitHubTokens
    IN
    /\ (pc = "returned" /\ ~credentials) =>
          /\ IsFailure(response)
          /\ trace = <<>>
          /\ linear_tools = <<>> /\ github_tools = <<>>
          /\ task_analyst = None
          /\ task_analysis = NoTask
    /\ (pc \notin {"check_access", "get_tokens", "returned"}) => credentials
    /\ trace # <<>> => credentials

\* the credentials could not be obtained
C10_Witness ==
    /\ pc = "returned"
    /\ response = [error |-> <<"Failed to get tokens: ", "no linear grant">>, isError |-> TRUE]

-----------------------------------------------------------------------------
(* C11: a run without a search capability in which no stage raises takes    *)
(* the skip branch, then builds and executes Planning, then returns, in     *)
(* that order; the text handed to the caller is the text of the Planning    *)
(* stage's result, token for token, and the Research stage never ran.       *)
C11_SkipPlanDoneReturnsPlanningResult ==
    (pc = "returned" /\ ~SearchConstructed /\ ~SomeStageRaised /\ trace # <<>>) =>
        LET skipped == FirstIndex(Event("skip", "RS"))
            built   == FirstIndex(Event("build", "PL"))
            started == FirstIndex(Event("start", "PL"))
            planned == FirstIndex(Event("done", "PL"))
        IN  /\ 0 < skipped /\ skipped < built /\ built < started /\ started < planned
            /\ planned = Len(trace)
            /\ \A ev \in {"build", "start", "done"} : ~Happened(ev, "RS")
            /\ IsPlan(response)
            /\ response.implementation_plan = Str(final_result)
            /\ final_result # NoResult
            /\ response.task = task_identifier
            /\ response.repo = <<owner, "/", repo>>

\* no search capability, and the plan differs from every earlier stage's text
C11_Witness ==
    /\ pc = "returned"
    /\ IsPlan(response)
    /\ ~SearchConstructed
    /\ Len(response.implementation_plan) = 2
    /\ response.implementation_plan # task_analysis_output
    /\ response.implementation_plan # code_context
    /\ response.implementation_plan # research_output

-----------------------------------------------------------------------------
(* C13: no retry: every stage is built at most once and started at most     *)
(* once, and once a kickoff has raised the raise is the last call of the    *)
(* run: the run is failed and nothing is built or executed after it.        *)
C13_NoRetry ==
    /\ \A stage \in Stages :
          /\ Count("build", stage) <= 1
          /\ Count("start", stage) <= 1
          /\ Count("done", stage) + Count("raise", stage) <= 1
    /\ SomeStageRaised =>
          /\ pc \in {"raised", "returned"}
          /\ trace[Len(trace)].ev = "raise"
          /\ exc \in ErrorMessages
          /\ pc = "returned" => IsFailure(response)

\* the third stage raised after two stages had completed
C13_Witness ==
    /\ pc = "returned"
    /\ Happened("done", "CE")
    /\ Happened("raise", "RS")

-----------------------------------------------------------------------------
(* C17: an unauthorized or error text returned by a capability during a     *)
(* stage does not fail the run: the stage is still in execution with no     *)
(* exception in flight and nothing returned to the caller, and from there   *)
(* the run goes on to return the plan unless the reasoning layer raises.    *)
UnauthorizedText ==
    /\ lastCall.outcome = "text"
    /\ lastCall.cred = "rejected"

C17_UnauthorizedTextDoesNotFailRun ==
    /\ [](UnauthorizedText =>
            /\ pc \in {"exec_TA", "exec_CE", "exec_RS", "exec_PL"}
            /\ exc = NoException
            /\ response = NoResponse
            /\ ~SomeStageRaised)
    /\ UnauthorizedText ~> ((pc = "returned" /\ IsPlan(response)) \/ SomeStageRaised)

\* the repository capability answered "Status 401" during Code-Exploration
C17_Witness ==
    /\ pc = "exec_CE"
    /\ lastCall.tool = "get_repo_structure"
    /\ lastCall.text = <<"{'error': 'Status ", "401", "'}">>

-----------------------------------------------------------------------------
(* C18: from the start of the first stage to the end of the run no role's   *)
(* capability set changes: the four roles and the roster stay as they were, *)
(* and every task stays bound to the role as it was made.                   *)
C18_CapabilitiesFixedDuringRun ==
    [][Happened("start", "TA") =>
          /\ agents' = agents
          /\ task_analysis'.agent = task_analyst
          /\ code_task' # NoTask => code_task'.agent = code_analyst
          /\ research_task' # NoTask => research_task'.agent = researcher
          /\ planning_task' # NoTask => planning_task'.agent = planner]_vars

\* a run with a researcher that executed all its stages
C18_Witness ==
    /\ pc = "returned"
    /\ IsPlan(response)
    /\ IsAgent(researcher)
    /\ Len(crew_agents) = 4

-----------------------------------------------------------------------------
(* C19: when a stage is started its instruction is fully resolved: the      *)
(* Code-Exploration instruction holds the Task-Analysis result and          *)
(* owner/repo, the Planning instruction holds the Task-Analysis result, the *)
(* Code-Exploration result and the research text (the placeholder sentence  *)
(* when Research was skipped) under their headings, as literal text, and no *)
(* instruction holds a template field that was left unfilled.               *)
TemplateFields ==
    {"{task_identifier}", "{task_context}", "{owner}", "{repo}",
     "{task_analysis}", "{code_context}", "{research}"}

Resolved(task) == Elems(task.description) \cap TemplateFields = {}

C19_InstructionsResolvedBeforeExecution ==
    /\ Happened("start", "TA") =>
          /\ Resolved(task_analysis)
          /\ Contains(task_analysis.description, <<task_identifier>>)
    /\ Happened("start", "CE") =>
          /\ Resolved(code_task)
          /\ Contains(code_task.description,
                      <<"Based on this task analysis:">> \o task_analysis_output
                      \o <<"Explore the repository ", owner, "/", repo>>)
    /\ Happened("start", "RS") =>
          /\ Resolved(research_task)
          /\ Contains(research_task.description, task_analysis_output)
    /\ Happened("start", "PL") =>
          /\ Resolved(planning_task)
          /\ Contains(planning_task.description,
                      <<"## Task Analysis">> \o task_analysis_output
                      \o <<"## Code Context">> \o code_context
                      \o <<"## Research Findings">> \o
                         (IF Happened("done", "RS") THEN research_output
                          ELSE <<"No web research performed.">>))
          /\ task_analysis_output # Unbound /\ code_context # Unbound
          /\ research_output # Unbound

\* Planning was started on three results of full length
C19_Witness ==
    /\ Happened("start", "PL")
    /\ Happened("done", "RS")
    /\ Len(task_analysis_output) = 2 /\ Len(code_context) = 2 /\ Len(research_output) = 2

-----------------------------------------------------------------------------
(* Two requests side by side *)

\* the locals of request i
Run(i) == IF i = active THEN Locals ELSE other

RunIds == {1, 2}

EventIn(r, ev, stage) == \E k \in 1..Len(r.trace) : r.trace[k] = Event(ev, stage)

-----------------------------------------------------------------------------
(* C12: the tokens stay inside the capabilities: no instruction, no         *)
(* expected-output text, no field of a role, no exception text and no value *)
(* returned to the caller holds a token; and two requests that differ only  *)
(* in their tokens and got the same stage results have the same             *)
(* instruction texts.                                                       *)
Secrets == LinearTokens \cup GitHubTokens

TaskTexts(task) == Elems(task.description) \cup Elems(task.expected_output)

RoleTexts(agent) == {agent.role} \cup Elems(agent.tools)

ResponseTexts(r) ==
    IF IsPlan(r) THEN Elems(r.implementation_plan) \cup {r.task} \cup Elems(r.repo)
    ELSE IF IsFailure(r)
         THEN Elems(r.error) \cup (IF "details" \in DOMAIN r THEN Elems(r.details) ELSE {})
         ELSE {}

\* everything of request r that the reasoning layer or the caller gets to see
Exposed(r) ==
    TaskTexts(r.task_analysis) \cup TaskTexts(r.code_task)
    \cup TaskTexts(r.research_task) \cup TaskTexts(r.planning_task)
    \cup UNION {RoleTexts(r.crew_agents[k]) : k \in 1..Len(r.crew_agents)}
    \cup RoleTexts(r.task_analyst) \cup RoleTexts(r.code_analyst)
    \cup RoleTexts(r.researcher) \cup RoleTexts(r.planner)
    \cup {r.exc} \cup ResponseTexts(r.response)

SameInputsButTokens(a, b) ==
    /\ a.task_identifier = b.task_identifier
    /\ a.owner = b.owner /\ a.repo = b.repo
    /\ a.enable_web_search = b.enable_web_search
    /\ a.linear_token # b.linear_token
    /\ a.github_token # b.github_token

Built(a, b, field) == a[field] # NoTask /\ b[field] # NoTask

SameText(a, b, field) ==
    /\ a[field].description = b[field].description
    /\ a[field].expected_output = b[field].expected_output

C12_TokensNeverExposed ==
    /\ \A i \in RunIds : Exposed(Run(i)) \cap Secrets = {}
    /\ LET a == Run(1)
           b == Run(2)
       IN  SameInputsButTokens(a, b) =>
             /\ Built(a, b, "task_analysis") => SameText(a, b, "task_analysis")
             /\ (/\ Built(a, b, "code_task")
                 /\ a.task_analysis_output = b.task_analysis_output)
                    => SameText(a, b, "code_task")
             /\ (/\ Built(a, b, "research_task")
                 /\ a.task_analysis_output = b.task_analysis_output)
                    => SameText(a, b, "research_task")
             /\ (/\ Built(a, b, "planning_task")
                 /\ a.task_analysis_output = b.task_analysis_output
                 /\ a.code_context = b.code_context
                 /\ a.research_output = b.research_output)
                    => SameText(a, b, "planning_task")

\* two requests with the same inputs, different tokens and the same results,
\* both with their Planning instruction built
C12_Witness ==
    /\ SameInputsButTokens(Run(1), Run(2))
    /\ Built(Run(1), Run(2), "planning_task")
    /\ Run(1).task_analysis_output = Run(2).task_analysis_output
    /\ Run(1).code_context = Run(2).code_context
    /\ Run(1).research_output = Run(2).research_output
    /\ EventIn(Run(1), "done", "RS")

-----------------------------------------------------------------------------
(* C14: when the caller cancels the request while a stage is in flight, no  *)
(* later stage of that run is built or started; and a request that starts   *)
(* (a retried one included) starts with no stage result bound.  Violated:   *)
(* the worker thread of run_in_executor is not interrupted by the           *)
(* cancellation and runs the remaining stages.                              *)
C14_CancelStopsRun ==
    /\ \A i \in 1..Len(trace) :
          trace[i].ev = "cancel" =>
              \A j \in (i + 1)..Len(trace) : trace[j].ev \notin {"build", "start"}
    /\ pc = "check_access" =>
          /\ outputs = <<Unbound, Unbound, Unbound, NoResult>>
          /\ tasks = <<NoTask, NoTask, NoTask, NoTask>>
          /\ trace = <<>>

-----------------------------------------------------------------------------
(* C15: a run does not hold the event loop: while a request is inside       *)
(* run_research_crew its coroutine is not on the loop, so a request that is *)
(* at the entry of research_task can take its first step, and one that is   *)
(* in its first segment is the one on the loop.                             *)
C15_RunLeavesLoopFree ==
    \A i \in RunIds :
        LET mine == Run(i)
            theirs == Run(3 - i)
        IN  mine.pc \in WorkerPcs =>
              /\ loop_owner # i
              /\ theirs.pc = "check_access" => loop_owner = 0
              /\ theirs.pc \in {"get_tokens", "dispatch"} => loop_owner = 3 - i
              /\ (theirs.pc = "check_access" /\ active = 3 - i)
                    => ENABLED research_task_check_access

\* one request is inside a kickoff while the other enters research_task,
\* and both requests are inside a kickoff at once
C15_Witness ==
    /\ Run(1).pc = "exec_TA"
    /\ Run(2).pc = "exec_CE"
    /\ active = 2

-----------------------------------------------------------------------------
(* C16: two requests share no state: a step changes the locals of one       *)
(* request at most, and for each request the instructions are built from    *)
(* its own inputs and results, its research decision follows its own flag   *)
(* and its own search capability, and the text it returns is its own        *)
(* Planning result.                                                         *)
OwnInstructions(r) ==
    /\ r.task_analysis # NoTask =>
          r.task_analysis = create_task_analysis_task(r.task_analyst, r.task_identifier)
    /\ r.code_task # NoTask =>
          r.code_task = create_code_exploration_task(r.code_analyst, r.owner, r.repo,
                                                     r.task_analysis_output)
    /\ r.research_task # NoTask =>
          r.research_task = create_research_task(r.researcher, r.task_analysis_output)
    /\ r.planning_task # NoTask =>
          r.planning_task = create_planning_task(r.planner, r.task_analysis_output,
                                                 r.code_context, r.research_output)

OwnDecision(r) ==
    (EventIn(r, "build", "RS") \/ EventIn(r, "skip", "RS")) =>
        (EventIn(r, "build", "RS")
            <=> (r.enable_web_search /\ EventIn(r, "search_constructed", "RS")))

OwnResult(r) ==
    IsPlan(r.response) =>
        /\ r.response.implementation_plan = r.final_result.raw
        /\ r.response.task = r.task_identifier
        /\ r.response.repo = <<r.owner, "/", r.repo>>

C16_RunsShareNoState ==
    /\ [](\A i \in RunIds :
            OwnInstructions(Run(i)) /\ OwnDecision(Run(i)) /\ OwnResult(Run(i)))
    /\ [][\A i \in RunIds : Run(i)' # Run(i) => Run(3 - i)' = Run(3 - i)]_vars

\* both requests returned their plans, from different inputs, decisions and results
C16_Witness ==
    /\ IsPlan(Run(1).response) /\ IsPlan(Run(2).response)
    /\ Run(1).task_identifier # Run(2).task_identifier
    /\ Run(1).response.implementation_plan # Run(2).response.implementation_plan
    /\ Run(1).task_analysis_output # Run(2).task_analysis_output
    /\ EventIn(Run(1), "done", "RS") /\ EventIn(Run(2), "skip", "RS")

-----------------------------------------------------------------------------
(* C21: the researcher is handled by omission: once the roles are created   *)
(* the researcher exists if and only if a search capability was             *)
(* constructed, once the roster is filled the researcher is in it if and    *)
(* only if a search capability was constructed, and a run that returned a   *)
(* plan with a researcher in its roster has executed the Research stage.    *)
RolesCreated == IsAgent(planner)

RosterFilled == Len(crew_agents) > 0

InRoster(agent) == IsAgent(agent) /\ \E k \in 1..Len(crew_agents) : crew_agents[k] = agent

C21_ResearcherOmittedWithoutSearch ==
    /\ RolesCreated => (IsAgent(researcher) <=> SearchConstructed)
    /\ RosterFilled =>
          /\ InRoster(researcher) <=> SearchConstructed
          /\ Len(crew_agents) = (IF SearchConstructed THEN 4 ELSE 3)
          /\ \A k \in 1..Len(crew_agents) :
                crew_agents[k].role = "Technical Researcher" => SearchConstructed
    /\ (IsPlan(response) /\ InRoster(researcher)) =>
          (Happened("start", "RS") /\ Happened("done", "RS"))

\* a plan is returned by a run whose search was asked for and not constructed:
\* the roster has three roles and Research was skipped
C21_Witness ==
    /\ IsPlan(response)
    /\ enable_web_search /\ Happened("search_failed", "RS")
    /\ Len(crew_agents) = 3 /\ ~InRoster(researcher)
    /\ Happened("skip", "RS")

-----------------------------------------------------------------------------
(* C22: for every Linear tool, every GitHub tool and research_task: when    *)
(* the access context reports errors the handler returns an error value     *)
(* with isError true, no token is read, no request is sent and no pipeline  *)
(* run is started; and research_task never raises to its caller: an         *)
(* exception of the pipeline becomes an error value with isError true.      *)
C22_Tools == LinearToolNames \cup GitHubToolNames \cup {"research_task"}

C22_AccessErrorsStopEveryTool ==
    /\ (mcp_tool \in C22_Tools /\ access_ctx.errors) =>
          /\ pc \in {"check_access", "tool_check_access", "returned"}
          /\ token = "<unbound>"
          /\ linear_token = "<unbound>" /\ github_token = "<unbound>"
          /\ requests = <<>>
          /\ lastCall = NoCall /\ toolCalls = 0
          /\ trace = <<>>
          /\ linear_tools = <<>> /\ github_tools = <<>>
          /\ exc = NoException
          /\ pc = "returned" =>
                /\ "error" \in DOMAIN response
                /\ "isError" \in DOMAIN response
                /\ response.isError = TRUE
    /\ mcp_tool = "research_task" =>
          /\ pc # "raised_to_caller"
          /\ (pc = "returned" /\ exc # NoException) =>
                /\ "isError" \in DOMAIN response
                /\ response.isError = TRUE
                /\ response.error = <<"Research crew failed: ", exc>>
          /\ pc = "returned" =>
                \/ "implementation_plan" \in DOMAIN response
                \/ ("isError" \in DOMAIN response /\ response.isError = TRUE)

\* a Linear tool called with an access context that reports errors has returned
C22_Witness ==
    /\ mcp_tool = "get_linear_task"
    /\ access_ctx.errors
    /\ pc = "returned"
    /\ response.isError = TRUE

-----------------------------------------------------------------------------
(* C23: in create_branch the request that creates the ref is sent only      *)
(* after the lookup of the source branch answered 200, and carries the SHA  *)
(* of that answer; when the lookup answers another status no create request *)
(* is sent and an error is returned; success is returned only when the      *)
(* create request answered 201.                                             *)
C23_CreateBranchOrderedAndGuarded ==
    mcp_tool = "create_branch" =>
        /\ Len(requests) <= 2
        /\ \A i \in 1..Len(requests) :
              requests[i].method = "POST" =>
                  /\ i = 2
                  /\ requests[1] = [method |-> "GET", url |-> <<"git/ref/heads/", from_branch>>]
                  /\ ref_response.status = 200
                  /\ requests[i].sha = ref_response.sha
                  /\ requests[i].ref = <<"refs/heads/", branch_name>>
        /\ (ref_response.status \notin {0, 200} /\ pc # "check_ref") =>
              /\ pc = "returned"
              /\ "error" \in DOMAIN response
              /\ Len(requests) = 1
        /\ (pc = "returned" /\ "success" \in DOMAIN response) =>
              /\ create_response.status = 201
              /\ Len(requests) = 2
              /\ response.sha = ref_response.sha
              /\ response.branch = branch_name

\* the branch was created from the second SHA of the second source branch
C23_Witness ==
    /\ mcp_tool = "create_branch"
    /\ pc = "returned"
    /\ "success" \in DOMAIN response
    /\ from_branch = "develop"
    /\ response.sha = "sha_b"
    /\ Len(requests) = 2

-----------------------------------------------------------------------------
(* C24: every run terminates: as long as each kickoff and each capability   *)
(* call returns or raises, the run reaches the return of a plan or of a     *)
(* failure, having started four stage executions at most; from no state     *)
(* does the run loop or wait forever.                                       *)
StageExecutions == {i \in 1..Len(trace) : trace[i].ev = "start"}

Terminated == pc = "returned" /\ (IsPlan(response) \/ IsFailure(response))

C24_EveryRunTerminates ==
    /\ <>Terminated
    /\ [](Cardinality(StageExecutions) <= 4)
    /\ [](Terminated => ~ENABLED Next)

\* a plan is returned after four stage executions
C24_Witness ==
    /\ Terminated
    /\ IsPlan(response)
    /\ Cardinality(StageExecutions) = 4

====
